---------------------------- MODULE Spec2Model ----------------------------
(***************************************************************************)
(* State-machine model of the portfolio gallery of                         *)
(* src/portfolio_collections_react_single_file_site.jsx: the App           *)
(* component's useState cells, its two useEffect callbacks, its memoised   *)
(* filter/sort, its pager and the Gallery carousel of the quick view.      *)
(*                                                                         *)
(* Strings are sequences of one-character strings.  Items are referred to  *)
(* by their position in PROJECTS (an object reference); 0 is null.         *)
(***************************************************************************)
EXTENDS Integers, Sequences, FiniteSets, TLC

VARIABLES
    PROJECTS,        \* the static item array (line 48)
    perPage,         \* CONFIG.GRID.perPage (line 43)
    query,           \* useState("")            (line 136)
    activeTags,      \* useState([])            (line 137)
    sort,            \* useState("new")         (line 138)
    yearRange,       \* useState([2019, 2025])  (line 139)
    page,            \* useState(1)             (line 140)
    open,            \* useState(false)         (line 141)
    selected,        \* useState(null)          (line 142)
    filtered,        \* the value held by useMemo (lines 159-178)
    galleryMounted,  \* whether the Gallery instance of the dialog exists
    idx,             \* Gallery's useState(0)   (line 459)
    pending,         \* passive effects of the last commit not yet flushed
    last             \* history: the last user event and the page before it

vars == << PROJECTS, perPage, query, activeTags, sort, yearRange, page, open,
           selected, filtered, galleryMounted, idx, pending, last >>

-----------------------------------------------------------------------------
(* Bounds of the model *)

\* perPage ranges over 1..MaxPerPage (the shipped CONFIG sets 12)
MaxPerPage == 2

-----------------------------------------------------------------------------
(* Numbers and sequences *)

Min(a, b) == IF a < b THEN a ELSE b
Max(a, b) == IF a > b THEN a ELSE b

\* Math.min() / Math.max() with no arguments
Infinity == 1000000

RECURSIVE MathMin(_)
MathMin(s) == IF Len(s) = 0 THEN Infinity ELSE Min(Head(s), MathMin(Tail(s)))

RECURSIVE MathMax(_)
MathMax(s) == IF Len(s) = 0 THEN -Infinity ELSE Max(Head(s), MathMax(Tail(s)))

\* Array.prototype.includes
Includes(arr, x) == \E i \in 1..Len(arr) : arr[i] = x

\* Array.prototype.filter(x => x !== t)
RECURSIVE Without(_, _)
Without(arr, t) ==
    IF Len(arr) = 0 THEN << >>
    ELSE IF Head(arr) = t THEN Without(Tail(arr), t)
         ELSE << Head(arr) >> \o Without(Tail(arr), t)

\* Array.prototype.slice(start, end) with 0 <= start, 0-based, end exclusive
Slice(arr, start, end) ==
    LET hi == Min(end, Len(arr))
    IN  IF start >= hi THEN << >> ELSE SubSeq(arr, start + 1, hi)

-----------------------------------------------------------------------------
(* Strings *)

\* String.prototype.toLowerCase, per character
LowerChar(c) == IF c = "A" THEN "a" ELSE IF c = "B" THEN "b" ELSE c

ToLowerCase(s) == [i \in 1..Len(s) |-> LowerChar(s[i])]

\* String.prototype.trim
RECURSIVE TrimStart(_)
TrimStart(s) ==
    IF Len(s) > 0 /\ Head(s) = " " THEN TrimStart(Tail(s)) ELSE s

RECURSIVE TrimEnd(_)
TrimEnd(s) ==
    IF Len(s) > 0 /\ s[Len(s)] = " " THEN TrimEnd(SubSeq(s, 1, Len(s) - 1)) ELSE s

Trim(s) == TrimEnd(TrimStart(s))

\* String.prototype.includes: q occurs in s as a substring
StrIncludes(s, q) ==
    \E i \in 0..(Len(s) - Len(q)) : SubSeq(s, i + 1, i + Len(q)) = q

\* Array.prototype.join(" ")
RECURSIVE JoinSpace(_)
JoinSpace(arr) ==
    IF Len(arr) = 0 THEN << >>
    ELSE IF Len(arr) = 1 THEN arr[1]
         ELSE arr[1] \o << " " >> \o JoinSpace(Tail(arr))

\* UTF-16 code unit of the characters used
CodeUnit(c) ==
    IF c = " " THEN 32 ELSE IF c = "A" THEN 65 ELSE IF c = "B" THEN 66
    ELSE IF c = "a" THEN 97 ELSE 98

\* Collation weights of a character: at the first level letters compare
\* without regard to case, at the last level a lower-case letter precedes
\* its upper-case form
Primary(c) == IF c = " " THEN 0 ELSE IF LowerChar(c) = "a" THEN 1 ELSE 2

Tertiary(c) == IF c = LowerChar(c) THEN 0 ELSE 1

Weight(level, c) ==
    IF level = "primary" THEN Primary(c)
    ELSE IF level = "tertiary" THEN Tertiary(c)
    ELSE CodeUnit(c)

RECURSIVE CompareBy(_, _, _)
CompareBy(level, s, t) ==
    IF Len(s) = 0 /\ Len(t) = 0 THEN 0
    ELSE IF Len(s) = 0 THEN -1
    ELSE IF Len(t) = 0 THEN 1
    ELSE IF Weight(level, Head(s)) < Weight(level, Head(t)) THEN -1
    ELSE IF Weight(level, Head(s)) > Weight(level, Head(t)) THEN 1
    ELSE CompareBy(level, Tail(s), Tail(t))

\* String.prototype.localeCompare
LocaleCompare(s, t) ==
    LET p == CompareBy("primary", s, t)
    IN  IF p # 0 THEN p ELSE CompareBy("tertiary", s, t)

\* the default comparison of Array.prototype.sort() on strings
CodeUnitCompare(s, t) == CompareBy("codeunit", s, t)

-----------------------------------------------------------------------------
(* Catalog: the item arrays the model is run on *)

\* three items in two years: a tie in year, no tie in title
CatalogA ==
    << [id |-> "p1", title |-> << "b" >>, year |-> 2023, role |-> << "B" >>,
        tools |-> << << "b" >> >>, tags |-> << << "a" >>, << "b" >> >>,
        images |-> << "i1", "i2" >>],
       [id |-> "p2", title |-> << "A" >>, year |-> 2022, role |-> << "b" >>,
        tools |-> << << "b" >> >>, tags |-> << << "b" >> >>,
        images |-> << "i3" >>],
       [id |-> "p3", title |-> << "B" >>, year |-> 2023, role |-> << "b" >>,
        tools |-> << << "b" >>, << "b" >> >>, tags |-> << << "b" >> >>,
        images |-> << "i4", "i5" >>] >>

\* two items with the same title, one of a year before 2019, one untagged
\* and without tools or images
CatalogB ==
    << [id |-> "q1", title |-> << "a" >>, year |-> 2022, role |-> << >>,
        tools |-> << >>, tags |-> << >>, images |-> << >>],
       [id |-> "q2", title |-> << "a" >>, year |-> 2018, role |-> << "b" >>,
        tools |-> << << "B" >> >>, tags |-> << << "a" >> >>,
        images |-> << "i6", "i7" >>] >>

CatalogEmpty == << >>

Catalogs == { CatalogEmpty, CatalogA, CatalogB }

\* what the search box can hold
QueryInputs == { << >>, << " " >>, << " ", "A" >> }

\* the values a year slider can report
SliderYears == { 2022, 2023 }

SortKeys == { "new", "old", "az", "za" }

-----------------------------------------------------------------------------
(* Derived catalog facts (lines 146-153) *)

RECURSIVE Years(_)
Years(items) ==
    IF Len(items) = 0 THEN << >> ELSE << Head(items).year >> \o Years(Tail(items))

minYear(items) == MathMin(Years(items))
maxYear(items) == MathMax(Years(items))

\* insertion of x into the Set-ordered array s (Set.prototype.add)
SetAdd(s, x) == IF Includes(s, x) THEN s ELSE Append(s, x)

RECURSIVE AddAll(_, _)
AddAll(s, arr) == IF Len(arr) = 0 THEN s ELSE AddAll(SetAdd(s, Head(arr)), Tail(arr))

RECURSIVE TagSet(_, _)
TagSet(s, items) ==
    IF Len(items) = 0 THEN s ELSE TagSet(AddAll(s, Head(items).tags), Tail(items))

\* Array.prototype.sort() without comparator, on distinct strings
RECURSIVE InsertSorted(_, _)
InsertSorted(sorted, x) ==
    IF Len(sorted) = 0 THEN << x >>
    ELSE IF CodeUnitCompare(x, Head(sorted)) < 0 THEN << x >> \o sorted
         ELSE << Head(sorted) >> \o InsertSorted(Tail(sorted), x)

RECURSIVE SortStrings(_)
SortStrings(arr) ==
    IF Len(arr) = 0 THEN << >>
    ELSE InsertSorted(SortStrings(SubSeq(arr, 1, Len(arr) - 1)), arr[Len(arr)])

allTags(items) == SortStrings(TagSet(<< >>, items))

-----------------------------------------------------------------------------
(* Selector: the body of the filtered useMemo (lines 159-178) *)

\* const q = query.trim().toLowerCase()
Needle(text) == ToLowerCase(Trim(text))

\* inQuery (lines 162-166)
inQuery(p, q) ==
    \/ Len(q) = 0
    \/ StrIncludes(ToLowerCase(p.title), q)
    \/ StrIncludes(ToLowerCase(p.role), q)
    \/ StrIncludes(ToLowerCase(JoinSpace(p.tools)), q)
    \/ StrIncludes(ToLowerCase(JoinSpace(p.tags)), q)

\* some instead of every
inTagsSome(p, tags) ==
    Len(tags) = 0 \/ \E i \in 1..Len(tags) : Includes(p.tags, tags[i])

\* inTags (line 167)
inTags(p, tags) ==
    Len(tags) = 0 \/ \A i \in 1..Len(tags) : Includes(p.tags, tags[i])

\* inYear (line 168)
inYear(p, yr) == p.year >= yr[1] /\ p.year <= yr[2]

\* the predicate given to PROJECTS.filter (lines 161-170)
Passes(p, text, tags, yr) ==
    inQuery(p, Needle(text)) /\ inTags(p, tags) /\ inYear(p, yr)

\* PROJECTS.filter(...): the references of the passing items, in array order
RECURSIVE FilterFrom(_, _, _, _, _)
FilterFrom(items, i, text, tags, yr) ==
    IF i > Len(items) THEN << >>
    ELSE (IF Passes(items[i], text, tags, yr) THEN << i >> ELSE << >>)
         \o FilterFrom(items, i + 1, text, tags, yr)

\* a comparator whose year branches are exchanged
ComparatorYearsSwapped(key, a, b) ==
    IF key = "new" THEN a.year - b.year
    ELSE IF key = "old" THEN b.year - a.year
    ELSE IF key = "az" THEN LocaleCompare(a.title, b.title)
    ELSE IF key = "za" THEN LocaleCompare(b.title, a.title)
    ELSE 0

\* the comparator given to sort (lines 171-177)
Comparator(key, a, b) ==
    IF key = "new" THEN b.year - a.year
    ELSE IF key = "old" THEN a.year - b.year
    ELSE IF key = "az" THEN LocaleCompare(a.title, b.title)
    ELSE IF key = "za" THEN LocaleCompare(b.title, a.title)
    ELSE 0

\* Array.prototype.sort(comparator) is a stable sort: x, which followed every
\* element of sorted, goes before the first element that must follow it
RECURSIVE InsertBy(_, _, _, _)
InsertBy(items, key, sorted, x) ==
    IF Len(sorted) = 0 THEN << x >>
    ELSE IF Comparator(key, items[Head(sorted)], items[x]) > 0 THEN << x >> \o sorted
         ELSE << Head(sorted) >> \o InsertBy(items, key, Tail(sorted), x)

RECURSIVE SortBy(_, _, _)
SortBy(items, key, refs) ==
    IF Len(refs) = 0 THEN << >>
    ELSE InsertBy(items, key, SortBy(items, key, SubSeq(refs, 1, Len(refs) - 1)),
                  refs[Len(refs)])

Select(items, text, tags, key, yr) ==
    SortBy(items, key, FilterFrom(items, 1, text, tags, yr))

\* a dependency array that lacks yearRange
MemoDepsWithoutYearRange == { "query", "activeTags", "sort" }

\* the dependency array of the filter/sort memo (line 178)
MemoDeps == { "query", "activeTags", "sort", "yearRange" }

\* useMemo (lines 159-178): the render after the given state cells were set
\* computes the list again when one of them is a dependency, and keeps the
\* held list otherwise
Memo(cells, held, fresh) == IF cells \cap MemoDeps # {} THEN fresh ELSE held

-----------------------------------------------------------------------------
(* Pager (lines 180-182) *)

\* Math.ceil(n / d) for n >= 0, d > 0
Ceil(n, d) == (n + d - 1) \div d

totalPagesOf(n, size) == Max(1, Ceil(n, size))

\* a start offset that is one page too far
startOfNextPage(pg, size) == pg * size

startOf(pg, size) == (pg - 1) * size

currentOf(list, pg, size) == Slice(list, startOf(pg, size), startOf(pg, size) + size)

totalPages == totalPagesOf(Len(filtered), perPage)

current == currentOf(filtered, page, perPage)

\* the targets of the two pagination buttons (lines 274, 278); a disabled
\* button does not call its handler
PrevTarget(pg) == IF pg = 1 THEN pg ELSE Max(1, pg - 1)

\* a next button that is never disabled and does not clamp
NextTargetUnclamped(pg, total) == pg + 1

NextTarget(pg, total) == IF pg = total THEN pg ELSE Min(total, pg + 1)

-----------------------------------------------------------------------------
(* Effects (lines 155-157 and 184-187) *)

\* a dependency array that lacks sort
ResetDepsWithoutSort == { "query", "activeTags", "yearRange" }

\* a dependency array that also lists page
ResetDepsWithPage == { "query", "activeTags", "sort", "yearRange", "page" }

\* the dependency array of the page-reset effect (line 187)
ResetDeps == { "query", "activeTags", "sort", "yearRange" }

\* a dependency array that lists the cell the effect itself sets
InitDepsWithYearRange == { "minYear", "maxYear", "yearRange" }

\* the dependency array of the year-range initialisation effect (line 157);
\* minYear and maxYear are memoised once (lines 152-153) and never set
InitDeps == { "minYear", "maxYear" }

\* the passive effects a commit schedules when the given state cells changed
Scheduled(cells) ==
    (IF cells \cap InitDeps # {} THEN { "initYear" } ELSE {})
        \cup (IF cells \cap ResetDeps # {} THEN { "pageReset" } ELSE {})

\* the value the page-reset effect gives to setPage (line 186)
ResetPage == 1

\* Gallery's images-or-placeholder (line 460)
safe(images) == IF Len(images) # 0 THEN images ELSE << "placeholder99" >>

-----------------------------------------------------------------------------
(* Initial state: the first commit of App, before any effect has run *)

InitYearLo == 2019
InitYearHi == 2025

Init ==
    /\ PROJECTS \in Catalogs
    /\ perPage \in 1..MaxPerPage
    /\ query = << >>
    /\ activeTags = << >>
    /\ sort = "new"
    /\ yearRange = << InitYearLo, InitYearHi >>
    /\ page = 1
    /\ open = FALSE
    /\ selected = 0
    /\ filtered = Select(PROJECTS, << >>, << >>, "new", << InitYearLo, InitYearHi >>)
    /\ galleryMounted = FALSE
    /\ idx = 0
    /\ pending = { "initYear", "pageReset" }
    /\ last = [op |-> "mount", page |-> 1]

-----------------------------------------------------------------------------
(* Effects.  React flushes the passive effects of a commit together, applies
   the state they set, renders again and schedules the effects whose
   dependencies changed. *)

\* the flush after mount: both effects run (lines 155-157, 184-187)
MountEffects ==
    /\ "initYear" \in pending
    /\ yearRange' = << minYear(PROJECTS), maxYear(PROJECTS) >>
    /\ page' = ResetPage
    /\ filtered' = Memo({ "yearRange", "page" }, filtered,
                      Select(PROJECTS, query, activeTags, sort, yearRange'))
    /\ pending' = Scheduled({ "yearRange", "page" })
    /\ UNCHANGED << PROJECTS, perPage, query, activeTags, sort, open, selected,
                    galleryMounted, idx, last >>

\* a later flush: the page-reset effect alone (lines 184-187); setPage with
\* the value page already has causes no render
PageResetEffect ==
    /\ pending = { "pageReset" }
    /\ page' = ResetPage
    /\ pending' = IF page = ResetPage THEN {} ELSE Scheduled({ "page" })
    /\ UNCHANGED << PROJECTS, perPage, query, activeTags, sort, yearRange, open,
                    selected, filtered, galleryMounted, idx, last >>

-----------------------------------------------------------------------------
(* User events.  Each runs with no effect pending: React flushes the passive
   effects of the previous commit before it dispatches the next event. *)

Idle == pending = {}

\* the Dialog of the quick view is modal (line 289): while it is open the page
\* behind it receives no event
PageEnabled == Idle /\ ~open

\* SearchBar onChange (lines 227, 351)
SetQuery(text) ==
    /\ PageEnabled
    /\ text # query
    /\ query' = text
    /\ filtered' = Memo({ "query" }, filtered,
                      Select(PROJECTS, text, activeTags, sort, yearRange))
    /\ pending' = Scheduled({ "query" })
    /\ last' = [op |-> "setQuery", page |-> page]
    /\ UNCHANGED << PROJECTS, perPage, activeTags, sort, yearRange, page, open,
                    selected, galleryMounted, idx >>

\* a toggle that appends without looking for the tag
toggleTagAlwaysAppend(tags, t) == Append(tags, t)

\* a toggle that puts a new tag in front
toggleTagPrepend(tags, t) ==
    IF Includes(tags, t) THEN Without(tags, t) ELSE << t >> \o tags

\* Filters.toggleTag (lines 373-375)
toggleTag(tags, t) == IF Includes(tags, t) THEN Without(tags, t) ELSE Append(tags, t)

ToggleTag(t) ==
    /\ PageEnabled
    /\ activeTags' = toggleTag(activeTags, t)
    /\ filtered' = Memo({ "activeTags" }, filtered,
                      Select(PROJECTS, query, activeTags', sort, yearRange))
    /\ pending' = Scheduled({ "activeTags" })
    /\ last' = [op |-> "toggleTag", page |-> page]
    /\ UNCHANGED << PROJECTS, perPage, query, sort, yearRange, page, open,
                    selected, galleryMounted, idx >>

\* the remove button of an active tag chip (line 257)
RemoveTag(t) ==
    /\ PageEnabled
    /\ activeTags' = Without(activeTags, t)
    /\ filtered' = Memo({ "activeTags" }, filtered,
                      Select(PROJECTS, query, activeTags', sort, yearRange))
    /\ pending' = Scheduled({ "activeTags" })
    /\ last' = [op |-> "removeTag", page |-> page]
    /\ UNCHANGED << PROJECTS, perPage, query, sort, yearRange, page, open,
                    selected, galleryMounted, idx >>

\* SortControl onValueChange (lines 201, 361)
SetSort(key) ==
    /\ PageEnabled
    /\ key # sort
    /\ sort' = key
    /\ filtered' = Memo({ "sort" }, filtered,
                      Select(PROJECTS, query, activeTags, key, yearRange))
    /\ pending' = Scheduled({ "sort" })
    /\ last' = [op |-> "setSort", page |-> page]
    /\ UNCHANGED << PROJECTS, perPage, query, activeTags, yearRange, page, open,
                    selected, galleryMounted, idx >>

\* Slider onValueChange={setYearRange} (line 410): the reported pair is stored
SetYearRange(lo, hi) ==
    /\ PageEnabled
    /\ yearRange' = << lo, hi >>
    /\ filtered' = Memo({ "yearRange" }, filtered,
                      Select(PROJECTS, query, activeTags, sort, yearRange'))
    /\ pending' = Scheduled({ "yearRange" })
    /\ last' = [op |-> "setYearRange", page |-> page]
    /\ UNCHANGED << PROJECTS, perPage, query, activeTags, sort, page, open,
                    selected, galleryMounted, idx >>

\* a Reset that also clears the search box and the sort key
ResetEverything ==
    /\ PageEnabled
    /\ activeTags' = << >>
    /\ yearRange' = << minYear(PROJECTS), maxYear(PROJECTS) >>
    /\ query' = << >>
    /\ sort' = "new"
    /\ filtered' = Select(PROJECTS, query', activeTags', sort', yearRange')
    /\ pending' = { "pageReset" }
    /\ last' = [op |-> "reset", page |-> page]
    /\ UNCHANGED << PROJECTS, perPage, page, open, selected, galleryMounted, idx >>

\* the Reset button (lines 414-418)
ResetFilters ==
    /\ PageEnabled
    /\ activeTags' = << >>
    /\ yearRange' = << minYear(PROJECTS), maxYear(PROJECTS) >>
    /\ filtered' = Memo({ "activeTags", "yearRange" }, filtered,
                      Select(PROJECTS, query, activeTags', sort, yearRange'))
    /\ pending' = Scheduled({ "activeTags", "yearRange" })
    /\ last' = [op |-> "reset", page |-> page]
    /\ UNCHANGED << PROJECTS, perPage, query, sort, page, open, selected,
                    galleryMounted, idx >>

\* the previous-page button (line 274)
PrevPage ==
    /\ PageEnabled
    /\ page' = PrevTarget(page)
    /\ pending' = Scheduled({ "page" })
    /\ last' = [op |-> "prev", page |-> page]
    /\ UNCHANGED << PROJECTS, perPage, query, activeTags, sort, yearRange, open,
                    selected, filtered, galleryMounted, idx >>

\* the next-page button (line 278)
NextPage ==
    /\ PageEnabled
    /\ page' = NextTarget(page, totalPages)
    /\ pending' = Scheduled({ "page" })
    /\ last' = [op |-> "next", page |-> page]
    /\ UNCHANGED << PROJECTS, perPage, query, activeTags, sort, yearRange, open,
                    selected, filtered, galleryMounted, idx >>

\* an onOpen that opens the dialog without setting the selection
OpenDetailWithoutSelection(p) ==
    /\ PageEnabled
    /\ Includes(current, p)
    /\ open' = TRUE
    /\ galleryMounted' = TRUE
    /\ idx' = IF galleryMounted THEN idx ELSE 0
    /\ pending' = {}
    /\ last' = [op |-> "open", page |-> page]
    /\ UNCHANGED << PROJECTS, perPage, query, activeTags, sort, yearRange, page,
                    selected, filtered >>

\* an onOpen that also goes back to the first page
OpenDetailToFirstPage(p) ==
    /\ PageEnabled
    /\ Includes(current, p)
    /\ selected' = p
    /\ open' = TRUE
    /\ page' = 1
    /\ galleryMounted' = TRUE
    /\ idx' = IF galleryMounted THEN idx ELSE 0
    /\ pending' = {}
    /\ last' = [op |-> "open", page |-> page]
    /\ UNCHANGED << PROJECTS, perPage, query, activeTags, sort, yearRange,
                    filtered >>

\* ProjectCard onOpen of a card of the visible page (lines 267-269).  The
\* Gallery of the dialog content is created with idx = 0 when it is not
\* mounted; an instance that is still mounted keeps its state (line 459).
OpenDetail(p) ==
    /\ PageEnabled
    /\ Includes(current, p)
    /\ selected' = p
    /\ open' = TRUE
    /\ galleryMounted' = TRUE
    /\ idx' = IF galleryMounted THEN idx ELSE 0
    /\ pending' = Scheduled({ "selected", "open" })
    /\ last' = [op |-> "open", page |-> page]
    /\ UNCHANGED << PROJECTS, perPage, query, activeTags, sort, yearRange, page,
                    filtered >>

\* Dialog onOpenChange={setOpen} reporting false (line 289)
CloseDetail ==
    /\ Idle
    /\ open
    /\ open' = FALSE
    /\ pending' = Scheduled({ "open" })
    /\ last' = [op |-> "close", page |-> page]
    /\ UNCHANGED << PROJECTS, perPage, query, activeTags, sort, yearRange, page,
                    selected, filtered, galleryMounted, idx >>

\* a dot of the Gallery (lines 475-487): one per image, only with 2 or more
SetIdx(i) ==
    /\ Idle
    /\ galleryMounted
    /\ Len(safe(PROJECTS[selected].images)) > 1
    /\ i \in 0..(Len(safe(PROJECTS[selected].images)) - 1)
    /\ idx' = i
    /\ pending' = Scheduled({ "idx" })
    /\ last' = [op |-> "setIdx", page |-> page]
    /\ UNCHANGED << PROJECTS, perPage, query, activeTags, sort, yearRange, page,
                    open, selected, filtered, galleryMounted >>

\* the closed Dialog drops its content once its exit transition is over
\* (lines 289-294): the Gallery instance and its idx are discarded
DialogUnmount ==
    /\ ~open
    /\ galleryMounted
    /\ galleryMounted' = FALSE
    /\ idx' = 0
    /\ UNCHANGED << PROJECTS, perPage, query, activeTags, sort, yearRange, page,
                    open, selected, filtered, pending, last >>

-----------------------------------------------------------------------------

Next ==
    \/ MountEffects
    \/ PageResetEffect
    \/ \E text \in QueryInputs : SetQuery(text)
    \/ \E i \in 1..Len(allTags(PROJECTS)) : ToggleTag(allTags(PROJECTS)[i])
    \/ \E i \in 1..Len(activeTags) : RemoveTag(activeTags[i])
    \/ \E key \in SortKeys : SetSort(key)
    \/ \E lo \in SliderYears, hi \in SliderYears : SetYearRange(lo, hi)
    \/ ResetFilters
    \/ PrevPage
    \/ NextPage
    \/ \E p \in 1..Len(PROJECTS) : OpenDetail(p)
    \/ CloseDetail
    \/ \E i \in 0..1 : SetIdx(i)
    \/ DialogUnmount

Spec == Init /\ [][Next]_vars

\* the effects are flushed and the exit transition ends; the user may stop
FairSpec ==
    /\ Spec
    /\ WF_vars(MountEffects)
    /\ WF_vars(PageResetEffect)
    /\ WF_vars(DialogUnmount)

-----------------------------------------------------------------------------
(* Properties *)

\* the user events that set a dependency of the page-reset effect
FilterOps == { "setQuery", "toggleTag", "removeTag", "setSort", "setYearRange", "reset" }

\* C1: once an event that changed the search text, the active tags, the year
\* range or the sort key has been handled and its effects have been flushed,
\* page is 1, whatever the page was before the event.
C1_PageResetOnFilterChange ==
    (Idle /\ last.op \in FilterOps) => page = 1

\* C1 witness: such an event came at a page beyond the first, and page is 1.
C1_ResetFromLaterPage ==
    Idle /\ last.op \in FilterOps /\ last.page > 1 /\ page = 1

\* C2: a year-range report with lo > hi is rejected: yearRange keeps its prior
\* value, and so stays ordered.
C2_InvertedRangeRejected ==
    [][\A lo \in SliderYears, hi \in SliderYears :
          (lo > hi /\ SetYearRange(lo, hi)) =>
              (yearRange' = yearRange /\ yearRange'[1] <= yearRange'[2])]_vars

\* C3: opening an item leaves the dialog open on that item with image 0
\* active, whatever happened in earlier detail sessions.
C3_OpenShowsFirstImage ==
    [][\A p \in 1..Len(PROJECTS) :
          OpenDetail(p) => (open' /\ selected' = p /\ idx' = 0)]_vars

\* C4: while a detail session is open the active image index is an index of
\* the images shown for the selected item.
C4_ActiveImageInRange ==
    open => (selected # 0 /\ idx \in 0..(Len(safe(PROJECTS[selected].images)) - 1))

\* C5: the detail session is never closed forever with a selection: after a
\* close the selected item is eventually null (or the session is opened again).
C5_SelectionEventuallyCleared ==
    []<>(open \/ selected = 0)

\* C6: in the first committed state of a non-empty catalog, before any effect
\* and any user event, yearRange is (minYear, maxYear) and the year filter
\* excludes no item.
C6_InitialRangeIsCatalogBounds ==
    (last.op = "mount" /\ "initYear" \in pending /\ Len(PROJECTS) > 0) =>
        /\ yearRange = << minYear(PROJECTS), maxYear(PROJECTS) >>
        /\ \A i \in 1..Len(PROJECTS) : inYear(PROJECTS[i], yearRange)

\* C7: after a page button the page is within 1..totalPages; previous at page 1
\* and next at the last page leave the page as it was.
C7_PageButtonsStayInRange ==
    (last.op \in { "prev", "next" }) =>
        /\ page \in 1..totalPages
        /\ (last.op = "prev" /\ last.page = 1) => page = 1
        /\ (last.op = "next" /\ last.page = totalPages) => page = totalPages

\* C7 witness: next was pressed on the last of several pages.
C7_NextAtLastPage ==
    /\ last.op = "next"
    /\ totalPages > 1
    /\ last.page = totalPages
    /\ page = totalPages

\* the slices of pages pg..total, one after the other
RECURSIVE PagesFrom(_, _, _, _)
PagesFrom(list, pg, total, size) ==
    IF pg > total THEN << >>
    ELSE currentOf(list, pg, size) \o PagesFrom(list, pg + 1, total, size)

\* C8: the slices of pages 1..totalPages, concatenated, are the filtered list;
\* every page but the last is full; an empty list has one page, which is empty.
C8_PagesPartitionFiltered ==
    /\ PagesFrom(filtered, 1, totalPages, perPage) = filtered
    /\ \A pg \in 1..(totalPages - 1) : Len(currentOf(filtered, pg, perPage)) = perPage
    /\ Len(filtered) > 0 => Len(currentOf(filtered, totalPages, perPage)) > 0
    /\ Len(filtered) = 0 => (totalPages = 1 /\ currentOf(filtered, 1, perPage) = << >>)

\* C8 witness: three items on two pages, the second page shown and holding
\* the one remaining item.
C8_TwoPagesLastPartial ==
    /\ Len(filtered) = 3
    /\ perPage = 2
    /\ totalPages = 2
    /\ page = 2
    /\ current = << filtered[3] >>

\* the text condition: the trimmed, case-folded search text is empty or occurs
\* in the case-folded title, role, joined tools or joined tags
TextMatch(p, text) ==
    LET q == ToLowerCase(Trim(text))
    IN  \/ q = << >>
        \/ \E hay \in { p.title, p.role, JoinSpace(p.tools), JoinSpace(p.tags) } :
               StrIncludes(ToLowerCase(hay), q)

\* the tag condition: every active tag is a tag of the item
TagMatch(p, tags) ==
    { tags[k] : k \in 1..Len(tags) } \subseteq { p.tags[k] : k \in 1..Len(p.tags) }

\* the year condition: the year lies in the closed interval
YearMatch(p, yr) == ~(p.year < yr[1]) /\ ~(p.year > yr[2])

\* C9: an item is in the filtered list exactly when it meets the text, the tag
\* and the year condition together.
C9_FilteredIffAllThree ==
    \A i \in 1..Len(PROJECTS) :
        Includes(filtered, i) <=>
            /\ TextMatch(PROJECTS[i], query)
            /\ TagMatch(PROJECTS[i], activeTags)
            /\ YearMatch(PROJECTS[i], yearRange)

\* C9 witness: a search text, two active tags and a one-year range select one
\* item, whose year is both ends of the range; another item carries only one
\* of the two tags.
C9_ThreeConditionsSelectOne ==
    /\ PROJECTS = CatalogA
    /\ Needle(query) # << >>
    /\ Len(activeTags) = 2
    /\ yearRange = << 2023, 2023 >>
    /\ filtered = << 1 >>

\* whether a goes before b, after b, or ties with it under the sort key
KeyOrder(key, a, b) ==
    IF key = "new" THEN (IF a.year > b.year THEN -1 ELSE IF a.year < b.year THEN 1 ELSE 0)
    ELSE IF key = "old" THEN (IF a.year < b.year THEN -1 ELSE IF a.year > b.year THEN 1 ELSE 0)
    ELSE IF key = "az" THEN LocaleCompare(a.title, b.title)
    ELSE -LocaleCompare(a.title, b.title)

\* C10: the filtered list is ordered by the sort key, and items with equal
\* keys are in catalog order.
C10_StableSortByKey ==
    \A i \in 1..Len(filtered) : \A j \in (i + 1)..Len(filtered) :
        LET o == KeyOrder(sort, PROJECTS[filtered[i]], PROJECTS[filtered[j]])
        IN  o <= 0 /\ (o = 0 => filtered[i] < filtered[j])

\* C10 witness: oldest first, the two items of the later year after the
\* earlier one and in catalog order.
C10_TieKeepsCatalogOrder ==
    /\ PROJECTS = CatalogA
    /\ sort = "old"
    /\ filtered = << 2, 1, 3 >>

\* the items of a list, as a set
Elems(list) == { list[k] : k \in 1..Len(list) }

\* C11: activating one more tag never adds an item: when a tag that is not
\* active is toggled, every item of the new filtered list was in the old one.
C11_AddingTagNarrows ==
    [][\A t \in Elems(allTags(PROJECTS)) :
          (~Includes(activeTags, t) /\ ToggleTag(t)) =>
              /\ Elems(filtered') \subseteq Elems(filtered)
              /\ Len(filtered') <= Len(filtered)]_vars

\* C11 witness: a second tag was activated and only the item carrying both
\* tags is left of the three that carry the first.
C11_SecondTagLeavesOne ==
    /\ PROJECTS = CatalogA
    /\ last.op = "toggleTag"
    /\ activeTags = << << "b" >>, << "a" >> >>
    /\ Needle(query) = << >>
    /\ yearRange = << 2022, 2023 >>
    /\ filtered = << 1 >>

\* C12: the Reset button empties activeTags and sets yearRange to
\* (minYear, maxYear), and leaves the search text and the sort key as they
\* were.
C12_ResetKeepsTextAndSort ==
    [][(Idle /\ ~Idle' /\ last'.op = "reset") =>
          /\ activeTags' = << >>
          /\ yearRange' = << minYear(PROJECTS), maxYear(PROJECTS) >>
          /\ query' = query
          /\ sort' = sort]_vars

\* C12 witness: Reset was pressed on page 2 with a search text and a sort key
\* other than the initial ones; both are still there, the tags and the range
\* are reset.
C12_ResetWithTextAndSort ==
    /\ last.op = "reset"
    /\ last.page = 2
    /\ ~Idle
    /\ Len(PROJECTS) > 0
    /\ Needle(query) # << >>
    /\ sort = "za"
    /\ activeTags = << >>
    /\ yearRange = << minYear(PROJECTS), maxYear(PROJECTS) >>

\* C13: a page button changes the page alone: the search text, the active
\* tags, the year range and the sort key stay, so the filtered list and
\* totalPages stay, and no effect is scheduled that would set the page again.
C13_PageChangeKeepsQuery ==
    [][(Idle /\ page' # page) =>
          /\ UNCHANGED << query, activeTags, yearRange, sort, filtered >>
          /\ totalPages' = totalPages
          /\ Idle']_vars

\* C13 witness: next went from page 1 to page 2 of a list narrowed by a search
\* text and a tag.
C13_NextUnderActiveFilters ==
    /\ last.op = "next"
    /\ last.page = 1
    /\ page = 2
    /\ Needle(query) # << >>
    /\ Len(activeTags) > 0
    /\ Len(filtered) = 2
    /\ totalPages = 2

\* C14: the detail session and the query state do not touch each other: a
\* step that opens or closes the dialog or picks an image, and any step that
\* changes open, selected or the active image index, leaves the search text,
\* the active tags, the year range, the sort key and the page as they were;
\* so no step that changes one of these changes the detail session.
C14_DetailApartFromQuery ==
    [][(\/ << open, selected, idx >>' # << open, selected, idx >>
        \/ CloseDetail
        \/ \E p \in 1..Len(PROJECTS) : OpenDetail(p)
        \/ \E i \in 0..1 : SetIdx(i)) =>
          UNCHANGED << query, activeTags, yearRange, sort, page >>]_vars

\* C14 witness: the second image was picked in a detail session opened from
\* page 2 of a list narrowed by a tag; tag and page are still there.
C14_ImagePickedOnPageTwo ==
    /\ last.op = "setIdx"
    /\ open
    /\ idx = 1
    /\ page = 2
    /\ Len(activeTags) > 0

\* the entries of tags other than t, in their order
OthersOf(tags, t) ==
    LET other(x) == x # t
    IN  SelectSeq(tags, other)

\* C15: toggling an active tag removes it and toggling an inactive tag
\* appends it at the end; the other tags and their order stay; toggling the
\* same tag once more gives the set of tags there was before.
C15_ToggleRemovesOrAppends ==
    [][\A t \in Elems(allTags(PROJECTS)) :
          ToggleTag(t) =>
              /\ Includes(activeTags, t) => activeTags' = OthersOf(activeTags, t)
              /\ ~Includes(activeTags, t) => activeTags' = activeTags \o << t >>
              /\ OthersOf(activeTags', t) = OthersOf(activeTags, t)
              /\ Elems(toggleTag(activeTags', t)) = Elems(activeTags)]_vars

\* C15 witness: tag b was toggled on before tag a, so the active tags are in
\* toggle order, not in the order of allTags.
C15_TagsInToggleOrder ==
    /\ last.op = "toggleTag"
    /\ Idle
    /\ allTags(PROJECTS) = << << "a" >>, << "b" >> >>
    /\ activeTags = << << "b" >>, << "a" >> >>

\* C16: with an empty item array minYear and maxYear are one sentinel year,
\* the year range the mount effect builds from them has lo <= hi, and the
\* filtered list is empty.
C16_EmptyCatalogHasSentinel ==
    Len(PROJECTS) = 0 =>
        /\ minYear(PROJECTS) = maxYear(PROJECTS)
        /\ (last.op = "mount" /\ "initYear" \notin pending) =>
               yearRange[1] <= yearRange[2]
        /\ filtered = << >>

\* C17: the list held by the memo is never stale: in every state it is the
\* list the selector computes from the present search text, active tags,
\* sort key and year range.
C17_MemoIsFresh ==
    filtered = Select(PROJECTS, query, activeTags, sort, yearRange)

\* C17 witness: the slider narrowed the range to one year after the sort key
\* was changed, and the held list is the two items of that year, titles
\* descending.
C17_FreshAfterSliderAndSort ==
    /\ PROJECTS = CatalogA
    /\ last.op = "setYearRange"
    /\ yearRange = << 2023, 2023 >>
    /\ sort = "za"
    /\ filtered = << 3, 1 >>

\* C18: in every rendered state, the render between a filter or sort change
\* and the page-reset effect included, the page is within 1..totalPages, and
\* the visible slice is empty only when the filtered list is empty.
C18_PageWithinTotalPages ==
    /\ page \in 1..totalPages
    /\ current = << >> => filtered = << >>

\* C19: while the dialog is open an item is selected, and it is an item of
\* the catalog.
C19_OpenHasSelection ==
    open => selected \in 1..Len(PROJECTS)

\* C19 witness: the dialog was opened on the third item under an active tag,
\* after an earlier session in which the second image had been picked.
C19_ReopenedUnderFilter ==
    /\ last.op = "open"
    /\ open
    /\ selected = 3
    /\ idx = 1
    /\ Len(activeTags) > 0

\* C20: the active tags hold no tag twice, and every active tag is one of
\* allTags.
C20_ActiveTagsDistinctAndKnown ==
    /\ \A i \in 1..Len(activeTags) : \A j \in 1..Len(activeTags) :
           activeTags[i] = activeTags[j] => i = j
    /\ Elems(activeTags) \subseteq Elems(allTags(PROJECTS))

\* C20 witness: a chip was removed and one of the two tags toggled on before
\* is left.
C20_OneTagLeftAfterChipRemove ==
    /\ last.op = "removeTag"
    /\ Idle
    /\ Len(allTags(PROJECTS)) = 2
    /\ Len(activeTags) = 1

\* C21: the effect cascade quiesces: whenever an effect is pending, at mount
\* or after a user event, the effects run and a state with no effect pending
\* is reached, given that pending effects are eventually flushed.
C21_EffectsQuiesce ==
    (~Idle) ~> Idle

\* C21 witness: both mount effects have run on a non-empty catalog: the year
\* range is the catalog's, no longer the initial one, and nothing is pending.
C21_QuietAfterMount ==
    /\ Idle
    /\ last.op = "mount"
    /\ Len(PROJECTS) > 0
    /\ yearRange = << minYear(PROJECTS), maxYear(PROJECTS) >>
    /\ yearRange # << InitYearLo, InitYearHi >>

=============================================================================
